---------------------------- MODULE Spec2Model ----------------------------
(***************************************************************************)
(* Real-time synchronization core of the Sorti dashboard                   *)
(* (src/sorti_api/static/app.js): the push subscription with its polling   *)
(* fallback, the debounced and serialized refresh() cycle, the signature   *)
(* based rendering of the bin table and of the event table.                *)
(*                                                                         *)
(* The page is single threaded: every handler runs to completion, and an   *)
(* async function is suspended only at its awaits.  refresh() is therefore *)
(* two steps: the call (up to the fetch it issues) and the continuation    *)
(* that runs when the fetch settles (render or showError, then finally).   *)
(*                                                                         *)
(* Time.  Timers are kept as the time left until they are due, and the     *)
(* dedup timestamp as its age (Date.now() - lastUpdateTs), which is all    *)
(* the handler reads.  Handlers take no time; time passes between them and *)
(* never runs past a due timer.                                            *)
(***************************************************************************)
EXTENDS Integers, Sequences, FiniteSets, TLC

\* ------------------------------------------------------------ constants
DEDUP_MS == 120
RETRY_MS == 350
DELAY_ADMIN_MS == 350
DELAY_EVENT_MS == 650
DELAY_DEFAULT_MS == 800
POLL_MS == 10000
EVENTS_LIMIT == 20
MAX_KG == 10000

\* ------------------------------------------------------------ bounds
\* Events from outside that a run takes: notifications and errors of the push
\* channel, user actions, steps of time finer than "up to the next due timer".
\* The browser's own steps (timer callbacks, a request settling, time running
\* up to the next due timer) are not counted.
MaxInputs == 3
\* Slots of the browser's timer tables (setTimeout, setInterval).
MaxTimers == 2
\* Where the count of refresh() calls made during one fetch stops counting.
MaxCalls == 2

FineSteps == {DEDUP_MS - 1, DEDUP_MS}

NULL == 0
TimerIds == 1..MaxTimers

\* ------------------------------------------------------------ data
\* Timestamps are opaque ISO strings in the program; small numbers here, 0 for
\* an absent one.  ClientNow stands for new Date().toISOString().
ClientNow == 9

Bin(id, cap, w, seen, fill) ==
  [bin_id |-> id, capacity_g |-> cap, current_weight_g |-> w,
   last_seen |-> seen, fill_percent |-> fill]

Event(id, bin, mat, w, co2, ts) ==
  [id |-> id, bin_id |-> bin, material |-> mat, weight_g |-> w,
   co2_saved_g |-> co2, ts |-> ts]

BinLists ==
  { << Bin("b1", 1000, 600, 1, 60), Bin("b2", 1000, 900, 1, 90) >> }

EventLists ==
  { << >>, << Event("e1", "b1", "glass", 500, 150, 2) >> }

Dashboards ==
  [bins : BinLists, recent_events : EventLists, is_admin : BOOLEAN]

\* What the update listener finds in ev.data: nothing, text that is no JSON,
\* or a JSON object (fields the object lacks are "" or 0).
Payload(type, bin, ts, eid, mat, w, co2) ==
  [type |-> type, bin_id |-> bin, ts |-> ts, event_id |-> eid,
   material |-> mat, weight_g |-> w, co2_saved_g |-> co2]

NoPayload == Payload("", "", 0, "", "", 0, 0)

Messages ==
  { [raw |-> "garbage", json |-> NoPayload],
    [raw |-> "json", json |-> Payload("event", "b1", 3, "e2", "glass", 500, 150)],
    [raw |-> "json", json |-> Payload("config", "b2", 0, "", "", 0, 0)] }

\* How the dashboard request can settle: fetchJSON returns the parsed body, or
\* throws where fetch rejects, where the status is not OK, where the body is no
\* JSON.
Failures == {"network", "status", "nonjson"}
Outcomes == {"ok"} \cup Failures

NoDashboard == [bins |-> << >>, recent_events |-> << >>, is_admin |-> FALSE]

\* What localStorage holds under LS_THRESH: nothing, or a JSON text with the
\* two numbers (one pair that breaks the rule, one that keeps it).
NoStored == [raw |-> "none", warn |-> 0, critical |-> 0]

Stored(w, c) == [raw |-> "json", warn |-> w, critical |-> c]

StoredThresholds == { NoStored, Stored(80, 80), Stored(60, 85) }

AdminKeys == {"k1"}

\* Signatures: strings in the program.  A joined list is kept as the list of
\* its parts, so the join of no rows is the empty string the variables start
\* with.
Sig(tag, rows) == [tag |-> tag, rows |-> rows]
EmptyString == Sig("", << >>)

\* ------------------------------------------------------------ state
VARIABLES
  booted,          \* DOMContentLoaded has run
  refreshing, pendingRefresh, refreshTimer,
  es, pollTimer, lastUpdateAge,
  lastIsAdmin, lastBinsSig, lastEventsSig, thresholds,
  adminKey, savedThresholds, onlyAlerts,      \* localStorage, the checkbox
  liveText, connDot, errBox,                  \* status display, error banner
  binsBody, eventsBody, eventsEmpty,          \* the two tables
  timeouts, intervals, inflight, adminReqs,   \* the browser: timers, requests
  inputs, sinceEffective, effGap, callsInFlight, lastOutcome, last, \* observers
  prev

progVars ==
  << booted, refreshing, pendingRefresh, refreshTimer, es, pollTimer,
     lastUpdateAge, lastIsAdmin, lastBinsSig, lastEventsSig, thresholds,
     adminKey, savedThresholds, onlyAlerts, liveText, connDot, errBox,
     binsBody, eventsBody, eventsEmpty, timeouts, intervals, inflight,
     adminReqs >>

obsVars ==
  << inputs, sinceEffective, effGap, callsInFlight, lastOutcome, last, prev >>

vars == << progVars, obsVars >>

\* The program's state as one value, so that a handler is a function from
\* state to state and a call is an application.
Cur ==
  [booted |-> booted, refreshing |-> refreshing,
   pendingRefresh |-> pendingRefresh, refreshTimer |-> refreshTimer,
   es |-> es, pollTimer |-> pollTimer, lastUpdateAge |-> lastUpdateAge,
   lastIsAdmin |-> lastIsAdmin, lastBinsSig |-> lastBinsSig,
   lastEventsSig |-> lastEventsSig, thresholds |-> thresholds,
   adminKey |-> adminKey, savedThresholds |-> savedThresholds,
   onlyAlerts |-> onlyAlerts, liveText |-> liveText,
   connDot |-> connDot, errBox |-> errBox, binsBody |-> binsBody,
   eventsBody |-> eventsBody, eventsEmpty |-> eventsEmpty,
   timeouts |-> timeouts, intervals |-> intervals, inflight |-> inflight,
   adminReqs |-> adminReqs]

Become(s) ==
  /\ booted' = s.booted
  /\ refreshing' = s.refreshing
  /\ pendingRefresh' = s.pendingRefresh
  /\ refreshTimer' = s.refreshTimer
  /\ es' = s.es
  /\ pollTimer' = s.pollTimer
  /\ lastUpdateAge' = s.lastUpdateAge
  /\ lastIsAdmin' = s.lastIsAdmin
  /\ lastBinsSig' = s.lastBinsSig
  /\ lastEventsSig' = s.lastEventsSig
  /\ thresholds' = s.thresholds
  /\ adminKey' = s.adminKey
  /\ savedThresholds' = s.savedThresholds
  /\ onlyAlerts' = s.onlyAlerts
  /\ liveText' = s.liveText
  /\ connDot' = s.connDot
  /\ errBox' = s.errBox
  /\ binsBody' = s.binsBody
  /\ eventsBody' = s.eventsBody
  /\ eventsEmpty' = s.eventsEmpty
  /\ timeouts' = s.timeouts
  /\ intervals' = s.intervals
  /\ inflight' = s.inflight
  /\ adminReqs' = s.adminReqs

\* ------------------------------------------------------------ timers
\* A timer table maps the ids of the armed timers to the time left.
NoTimers == [i \in {} |-> 0]

FreshId(table) ==
  IF TimerIds \ DOMAIN table = {} THEN MaxTimers
  ELSE CHOOSE i \in TimerIds \ DOMAIN table :
         \A j \in TimerIds \ DOMAIN table : i <= j

Arm(table, id, ms) ==
  [i \in DOMAIN table \cup {id} |-> IF i = id THEN ms ELSE table[i]]

Disarm(table, id) == [i \in DOMAIN table \ {id} |-> table[i]]

Min(a, b) == IF a <= b THEN a ELSE b


\* A handler runs on the program state extended with what the step is seen to
\* do: whether it issued a dashboard request, the time that was left on a
\* timeout it cancelled and the delay it asked scheduleRefresh for (-1: none),
\* the tables it rendered anew (innerHTML assigned), whether it raised an
\* alert().
Idle(act) ==
  [act |-> act, started |-> FALSE, cancelled |-> -1, asked |-> -1,
   rendered |-> {}, alerted |-> FALSE]

Enter ==
  Cur @@ [started |-> FALSE, cancelled |-> -1, asked |-> -1, rendered |-> {},
          alerted |-> FALSE]

alert(s) == [s EXCEPT !.alerted = TRUE]

setTimeout(s, id, ms) == [s EXCEPT !.timeouts = Arm(@, id, ms)]

clearTimeout(s, id) ==
  IF id \in DOMAIN s.timeouts
  THEN [s EXCEPT !.timeouts = Disarm(@, id), !.cancelled = s.timeouts[id]]
  ELSE s

setInterval(s, id, ms) == [s EXCEPT !.intervals = Arm(@, id, ms)]

clearInterval(s, id) == [s EXCEPT !.intervals = Disarm(@, id)]

\* ------------------------------------------------------------ status display
setConnState(s, state) ==
  [s EXCEPT !.connDot = IF state = "polling" THEN "warn"
                        ELSE IF state = "offline" THEN "bad" ELSE ""]

setLive(s, text, state) ==
  LET s1 == [s EXCEPT !.liveText = text]
  IN IF state # "" THEN setConnState(s1, state) ELSE s1

showError_BannerOnly(s, msg) == [s EXCEPT !.errBox = msg]

showError(s, msg) == setLive([s EXCEPT !.errBox = msg], "Offline", "offline")

clearError(s) == [s EXCEPT !.errBox = ""]

\* ------------------------------------------------------------ thresholds
ValidThresholds(w, c) == w > 0 /\ c > 0 /\ w < c /\ c <= 100

loadThresholds(s) ==
  LET stored == s.savedThresholds
  IN IF stored.raw = "none" THEN s
     ELSE IF ValidThresholds(stored.warn, stored.critical)
          THEN [s EXCEPT !.thresholds =
                           [warn |-> stored.warn, critical |-> stored.critical]]
          ELSE s

saveThresholds(s) ==
  [s EXCEPT !.savedThresholds = Stored(s.thresholds.warn, s.thresholds.critical)]

priorityOf(s, fill) ==
  IF fill >= s.thresholds.critical THEN 2
  ELSE IF fill >= s.thresholds.warn THEN 1 ELSE 0

\* ------------------------------------------------------------ refresh
\* fetchDashboard up to its await: the request is issued.
fetchDashboard(s) == [s EXCEPT !.inflight = @ + 1, !.started = TRUE]

\* scheduleRefresh(ms): the armed timer, if any, is cancelled and a new one
\* is armed.
scheduleRefresh_NoClear(s, ms) ==
  LET id == FreshId(s.timeouts)
  IN [setTimeout(s, id, ms) EXCEPT !.refreshTimer = id, !.asked = ms]

scheduleRefresh(s, ms) ==
  LET s1 == IF s.refreshTimer # NULL THEN clearTimeout(s, s.refreshTimer) ELSE s
      id == FreshId(s1.timeouts)
  IN [setTimeout(s1, id, ms) EXCEPT !.refreshTimer = id, !.asked = ms]

\* refresh() from its call to the await of the fetch.
refresh_NoGuard(s) == fetchDashboard(clearError([s EXCEPT !.refreshing = TRUE]))

refresh(s) ==
  IF s.refreshing THEN [s EXCEPT !.pendingRefresh = TRUE]
  ELSE fetchDashboard(clearError([s EXCEPT !.refreshing = TRUE]))

\* The finally block of refresh().
refreshFinally_Direct(s) ==
  LET s1 == [s EXCEPT !.refreshing = FALSE]
  IN IF s1.pendingRefresh
     THEN refresh([s1 EXCEPT !.pendingRefresh = FALSE])
     ELSE s1

refreshFinally_Forgets(s) ==
  [s EXCEPT !.refreshing = FALSE, !.pendingRefresh = FALSE]

refreshFinally(s) ==
  LET s1 == [s EXCEPT !.refreshing = FALSE]
  IN IF s1.pendingRefresh
     THEN scheduleRefresh([s1 EXCEPT !.pendingRefresh = FALSE], RETRY_MS)
     ELSE s1

\* The catch block of refresh().
refreshCatch(s, e) == showError(s, e)


\* ------------------------------------------------------------ bin table
\* The comparator of binsAll.sort: severity class first, fill ratio second.
Before_ClassOnly(s, a, b) ==
  priorityOf(s, a.fill_percent) > priorityOf(s, b.fill_percent)

Before(s, a, b) ==
  LET pa == priorityOf(s, a.fill_percent)
      pb == priorityOf(s, b.fill_percent)
  IN IF pa # pb THEN pa > pb ELSE a.fill_percent > b.fill_percent

\* Array.prototype.sort is stable: an element goes in front of the first one
\* it has to precede.
RECURSIVE InsertBin(_, _, _)
InsertBin(s, x, sorted) ==
  IF sorted = << >> THEN << x >>
  ELSE IF Before(s, x, Head(sorted)) THEN << x >> \o sorted
  ELSE << Head(sorted) >> \o InsertBin(s, x, Tail(sorted))

RECURSIVE SortBins(_, _)
SortBins(s, bins) ==
  IF bins = << >> THEN << >>
  ELSE InsertBin(s, bins[Len(bins)], SortBins(s, SubSeq(bins, 1, Len(bins) - 1)))

FilterAlerts(s, bins) ==
  SelectSeq(bins, LAMBDA b : priorityOf(s, b.fill_percent) > 0)

BinsSig(only, bins) ==
  Sig(IF only THEN "ONLY|" ELSE "ALL|",
      [i \in 1..Len(bins) |->
         << bins[i].bin_id, bins[i].capacity_g, bins[i].current_weight_g,
            bins[i].last_seen, bins[i].fill_percent >>])

BinRow(s, b) ==
  [bin_id |-> b.bin_id, weight |-> b.current_weight_g, cap |-> b.capacity_g,
   fill |-> b.fill_percent, pri |-> priorityOf(s, b.fill_percent),
   last |-> b.last_seen]

\* touchBinRow: the "last seen" cell of the row of that bin, if it is shown.
touchBinRow_EveryRow(s, binId, isoTs) ==
  IF binId = "" THEN s
  ELSE [s EXCEPT !.binsBody = [i \in 1..Len(@) |-> [@[i] EXCEPT !.last = isoTs]]]

touchBinRow(s, binId, isoTs) ==
  IF binId = "" THEN s
  ELSE [s EXCEPT !.binsBody =
          [i \in 1..Len(@) |->
             IF @[i].bin_id = binId THEN [@[i] EXCEPT !.last = isoTs] ELSE @[i]]]

\* The bin table part of refresh(): sort, filter, signature, rows.
renderBins_OneSignature(s, dash) ==
  LET binsAll == SortBins(s, dash.bins)
      bins == IF s.onlyAlerts THEN FilterAlerts(s, binsAll) ELSE binsAll
      binsSig == BinsSig(s.onlyAlerts, bins)
  IN IF binsSig # s.lastBinsSig
     THEN [s EXCEPT !.lastBinsSig = binsSig,
                    !.lastEventsSig = binsSig,
                    !.binsBody = [i \in 1..Len(bins) |-> BinRow(s, bins[i])],
                    !.rendered = @ \cup {"bins"}]
     ELSE s

renderBins_NoMemo(s, dash) ==
  LET binsAll == SortBins(s, dash.bins)
      bins == IF s.onlyAlerts THEN FilterAlerts(s, binsAll) ELSE binsAll
  IN [s EXCEPT !.binsBody = [i \in 1..Len(bins) |-> BinRow(s, bins[i])],
               !.rendered = @ \cup {"bins"}]

renderBins(s, dash) ==
  LET binsAll == SortBins(s, dash.bins)
      bins == IF s.onlyAlerts THEN FilterAlerts(s, binsAll) ELSE binsAll
      binsSig == BinsSig(s.onlyAlerts, bins)
  IN IF binsSig # s.lastBinsSig
     THEN [s EXCEPT !.lastBinsSig = binsSig,
                    !.binsBody = [i \in 1..Len(bins) |-> BinRow(s, bins[i])],
                    !.rendered = @ \cup {"bins"}]
     ELSE s

\* ------------------------------------------------------------ event table
EventRow(eid, bin, mat, w, co2, ts) ==
  [eid |-> eid, bin_id |-> bin, material |-> mat, weight |-> w, co2 |-> co2,
   when |-> ts]

EventsSig(events) ==
  Sig("", [i \in 1..Len(events) |->
             << events[i].ts, events[i].bin_id, events[i].material,
                events[i].weight_g, events[i].co2_saved_g, events[i].id >>])

renderRecentEvents_NoSentinel(s, dash) ==
  IF s.adminKey = ""
  THEN [s EXCEPT !.lastEventsSig = Sig("NOADMIN", << >>),
                 !.eventsBody = << >>, !.eventsEmpty = "noadmin",
                 !.rendered = @ \cup {"events"}]
  ELSE IF ~dash.is_admin
  THEN [s EXCEPT !.lastEventsSig = Sig("BADADMIN", << >>),
                 !.eventsBody = << >>, !.eventsEmpty = "badadmin",
                 !.rendered = @ \cup {"events"}]
  ELSE LET events == dash.recent_events
           sig == EventsSig(events)
       IN IF sig = s.lastEventsSig THEN s
          ELSE [s EXCEPT !.lastEventsSig = sig,
                         !.eventsEmpty = IF Len(events) = 0 THEN "none" ELSE "",
                         !.rendered = @ \cup {"events"},
                         !.eventsBody =
                           [i \in 1..Len(events) |->
                              EventRow(events[i].id, events[i].bin_id,
                                       events[i].material, events[i].weight_g,
                                       events[i].co2_saved_g, events[i].ts)]]

renderRecentEvents(s, dash) ==
  IF s.adminKey = ""
  THEN IF s.lastEventsSig # Sig("NOADMIN", << >>)
       THEN [s EXCEPT !.lastEventsSig = Sig("NOADMIN", << >>),
                      !.eventsBody = << >>, !.eventsEmpty = "noadmin",
                      !.rendered = @ \cup {"events"}]
       ELSE s
  ELSE IF ~dash.is_admin
  THEN IF s.lastEventsSig # Sig("BADADMIN", << >>)
       THEN [s EXCEPT !.lastEventsSig = Sig("BADADMIN", << >>),
                      !.eventsBody = << >>, !.eventsEmpty = "badadmin",
                      !.rendered = @ \cup {"events"}]
       ELSE s
  ELSE LET events == dash.recent_events
           sig == EventsSig(events)
       IN IF sig = s.lastEventsSig THEN s
          ELSE IF Len(events) = 0
          THEN [s EXCEPT !.lastEventsSig = sig, !.eventsBody = << >>,
                         !.eventsEmpty = "none",
                         !.rendered = @ \cup {"events"}]
          ELSE [s EXCEPT !.lastEventsSig = sig, !.eventsEmpty = "",
                         !.rendered = @ \cup {"events"},
                         !.eventsBody =
                           [i \in 1..Len(events) |->
                              EventRow(events[i].id, events[i].bin_id,
                                       events[i].material, events[i].weight_g,
                                       events[i].co2_saved_g, events[i].ts)]]

prependRecentEvent_KeepsSignature(s, payload) ==
  IF s.adminKey = "" \/ ~s.lastIsAdmin THEN s
  ELSE LET s1 == [s EXCEPT !.eventsEmpty = ""]
           ts == IF payload.ts # 0 THEN payload.ts ELSE ClientNow
           eid == payload.event_id
           row == EventRow(eid, IF payload.bin_id # "" THEN payload.bin_id ELSE "-",
                           IF payload.material # "" THEN payload.material ELSE "-",
                           payload.weight_g, payload.co2_saved_g, ts)
           rows == << row >> \o s1.eventsBody
       IN IF eid # "" /\ \E i \in 1..Len(s1.eventsBody) : s1.eventsBody[i].eid = eid
          THEN s1
          ELSE [s1 EXCEPT !.eventsBody = SubSeq(rows, 1, Min(Len(rows), EVENTS_LIMIT))]

prependRecentEvent_NoTruncate(s, payload) ==
  IF s.adminKey = "" \/ ~s.lastIsAdmin THEN s
  ELSE LET s1 == [s EXCEPT !.eventsEmpty = ""]
           ts == IF payload.ts # 0 THEN payload.ts ELSE ClientNow
           eid == payload.event_id
           row == EventRow(eid, IF payload.bin_id # "" THEN payload.bin_id ELSE "-",
                           IF payload.material # "" THEN payload.material ELSE "-",
                           payload.weight_g, payload.co2_saved_g, ts)
       IN IF eid # "" /\ \E i \in 1..Len(s1.eventsBody) : s1.eventsBody[i].eid = eid
          THEN s1
          ELSE [s1 EXCEPT !.eventsBody = << row >> \o s1.eventsBody,
                          !.lastEventsSig = Sig("LIVE", << >>)]

prependRecentEvent_NoDedup(s, payload) ==
  IF s.adminKey = "" \/ ~s.lastIsAdmin THEN s
  ELSE LET s1 == [s EXCEPT !.eventsEmpty = ""]
           ts == IF payload.ts # 0 THEN payload.ts ELSE ClientNow
           row == EventRow(payload.event_id,
                           IF payload.bin_id # "" THEN payload.bin_id ELSE "-",
                           IF payload.material # "" THEN payload.material ELSE "-",
                           payload.weight_g, payload.co2_saved_g, ts)
           rows == << row >> \o s1.eventsBody
       IN [s1 EXCEPT !.eventsBody = SubSeq(rows, 1, Min(Len(rows), EVENTS_LIMIT)),
                     !.lastEventsSig = Sig("LIVE", << >>)]

prependRecentEvent(s, payload) ==
  IF s.adminKey = "" \/ ~s.lastIsAdmin THEN s
  ELSE LET s1 == [s EXCEPT !.eventsEmpty = ""]
           ts == IF payload.ts # 0 THEN payload.ts ELSE ClientNow
           eid == payload.event_id
           row == EventRow(eid, IF payload.bin_id # "" THEN payload.bin_id ELSE "-",
                           IF payload.material # "" THEN payload.material ELSE "-",
                           payload.weight_g, payload.co2_saved_g, ts)
           rows == << row >> \o s1.eventsBody
       IN IF eid # "" /\ \E i \in 1..Len(s1.eventsBody) : s1.eventsBody[i].eid = eid
          THEN s1
          ELSE [s1 EXCEPT !.eventsBody = SubSeq(rows, 1, Min(Len(rows), EVENTS_LIMIT)),
                          !.lastEventsSig = Sig("LIVE", << >>)]

\* The try block of refresh() after the fetch has delivered the snapshot.
\* (Counters, quick alerts and charts are rewritten on every refresh and are
\* read by nothing here.)
refreshTry_AdminNotRecorded(s, dash) ==
  renderRecentEvents(renderBins(s, dash), dash)

refreshTry(s, dash) ==
  renderRecentEvents(renderBins([s EXCEPT !.lastIsAdmin = dash.is_admin], dash), dash)

\* ------------------------------------------------------------ transport
startPollingFallback(s) ==
  IF s.pollTimer # NULL THEN s
  ELSE LET id == FreshId(s.intervals)
       IN [setInterval(setLive(s, "Polling", "polling"), id, POLL_MS)
             EXCEPT !.pollTimer = id]

\* startSSE; throws: new EventSource(...) is not available and throws.
startSSE(s, throws) ==
  LET s1 == IF s.pollTimer # NULL
            THEN [clearInterval(s, s.pollTimer) EXCEPT !.pollTimer = NULL]
            ELSE s
  IN IF throws THEN startPollingFallback(s1)
     ELSE [s1 EXCEPT !.es = "connecting"]

onHello_StatusOnly(s) == setLive([s EXCEPT !.es = "live"], "Realtime", "realtime")

onHello(s) == refresh(setLive([s EXCEPT !.es = "live"], "Realtime", "realtime"))

onError_StaysOpen(s) == startPollingFallback(s)

onError(s) == startPollingFallback([s EXCEPT !.es = "null"])

\* ev.data parsed; no data and text that does not parse both give null.
ParsePayload(msg) == IF msg.raw = "json" THEN msg.json ELSE NoPayload

DelayOf_Flat(type) == DELAY_DEFAULT_MS

DelayOf(type) ==
  LET t == IF type = "" THEN "update" ELSE type
  IN IF t \in {"config", "empty", "rotate_key"} THEN DELAY_ADMIN_MS
     ELSE IF t = "event" THEN DELAY_EVENT_MS
     ELSE DELAY_DEFAULT_MS

\* now - lastUpdateTs < 120
TooSoon_Shorter(s) == s.lastUpdateAge < DEDUP_MS - 20

TooSoon(s) == s.lastUpdateAge < DEDUP_MS

onUpdate(s, msg) ==
  IF TooSoon(s) THEN s
  ELSE LET s1 == setLive([s EXCEPT !.lastUpdateAge = 0], "Realtime", "realtime")
           payload == ParsePayload(msg)
           ts == IF payload.ts # 0 THEN payload.ts ELSE ClientNow
           s2 == IF payload.bin_id # "" THEN touchBinRow(s1, payload.bin_id, ts) ELSE s1
           s3 == IF payload.type = "event" THEN prependRecentEvent(s2, payload) ELSE s2
       IN scheduleRefresh(s3, DelayOf(payload.type))

\* ------------------------------------------------------------ operator actions
\* btnEditThresholds.onclick with a number typed into each prompt.
editThresholds_NoUpperLimit(s, wn, cn) ==
  IF wn <= 0 \/ cn <= 0 \/ wn >= cn THEN alert(s)
  ELSE refresh(saveThresholds([s EXCEPT !.thresholds =
                                          [warn |-> wn, critical |-> cn]]))

editThresholds(s, wn, cn) ==
  IF wn <= 0 \/ cn <= 0 \/ wn >= cn \/ cn > 100 THEN alert(s)
  ELSE refresh(saveThresholds([s EXCEPT !.thresholds =
                                          [warn |-> wn, critical |-> cn]]))

\* The request of an administrative action is issued (fetchJSON up to its
\* await).
adminRequest(s) == [s EXCEPT !.adminReqs = @ + 1]

\* setCapacityKg up to its request; kg is the number typed into the prompt.
setCapacityKg(s, kg) ==
  IF s.adminKey = "" THEN alert(s)
  ELSE IF kg <= 0 THEN alert(s)
  ELSE IF kg > MAX_KG THEN alert(s)
  ELSE adminRequest(s)

\* emptyBin up to its request; ok is the answer to confirm().
emptyBin(s, ok) ==
  IF s.adminKey = "" THEN alert(s)
  ELSE IF ~ok THEN s
  ELSE adminRequest(s)

\* btnSimEvent.onclick up to its request; key is the ingest key in
\* localStorage, w the grams typed in (bin and material are filled in).
simEvent(s, key, w) ==
  IF key = "" THEN alert(s)
  ELSE IF w = 0 THEN alert(s)
  ELSE adminRequest(s)

\* The action resumed when its request has settled: await refresh(), or the
\* catch block with its alert.
adminResume_WaitsForPush(s, ok) == IF ok THEN s ELSE alert(s)

adminResume(s, ok) == IF ok THEN refresh(s) ELSE alert(s)


\* ------------------------------------------------------------ initial state
\* The module's variables as the script leaves them (app.js:4-20); the keys in
\* localStorage are what an earlier session left (here: an admin key); the
\* markup shows no status yet.  lastUpdateTs = 0 lies the whole epoch back.
Start(keys, stores, watch) ==
  /\ booted = FALSE
  /\ refreshing = FALSE
  /\ pendingRefresh = FALSE
  /\ refreshTimer = NULL
  /\ es = "null"
  /\ pollTimer = NULL
  /\ lastUpdateAge = DEDUP_MS
  /\ lastIsAdmin = FALSE
  /\ lastBinsSig = EmptyString
  /\ lastEventsSig = EmptyString
  /\ thresholds = [warn |-> 70, critical |-> 85]
  /\ adminKey \in keys
  /\ savedThresholds \in stores
  /\ onlyAlerts = FALSE
  /\ liveText = ""
  /\ connDot = ""
  /\ errBox = ""
  /\ binsBody = << >>
  /\ eventsBody = << >>
  /\ eventsEmpty = ""
  /\ timeouts = NoTimers
  /\ intervals = NoTimers
  /\ inflight = 0
  /\ adminReqs = 0
  /\ inputs = 0
  /\ sinceEffective = -1
  /\ effGap = -1
  /\ callsInFlight = 0
  /\ lastOutcome = "none"
  /\ last = Idle("init")
  /\ prev = [on |-> watch, quiet |-> FALSE, dash |-> NoDashboard,
             auth |-> "none"]

Init == Start(AdminKeys, {NoStored}, FALSE)

\* ------------------------------------------------------------ observers
\* last: the handler that ran last and what it was seen to do.
Did(act, s) ==
  last' = [act |-> act, started |-> s.started, cancelled |-> s.cancelled,
           asked |-> s.asked, rendered |-> s.rendered, alerted |-> s.alerted]

\* prev: the last refresh that succeeded.  auth is the authorization state it
\* found (no key stored, key stored but the snapshot says not admin, admin),
\* dash the snapshot it delivered; quiet holds for as long as no notification
\* has been acted on, no threshold edit accepted, the filter not toggled and
\* no key saved since.  The runs that are not about what the tables show
\* leave it off.
Auth(key, isAdmin) ==
  IF key = "" THEN "NOADMIN" ELSE IF ~isAdmin THEN "BADADMIN" ELSE "ADMIN"

Delivered(dash) ==
  prev' = IF prev.on
          THEN [on |-> TRUE, quiet |-> TRUE, dash |-> dash,
                auth |-> Auth(adminKey, dash.is_admin)]
          ELSE prev

Disturbed == prev' = [prev EXCEPT !.quiet = FALSE]

\* callsInFlight: the refresh() calls made since the fetch in flight began.
\* A handler that calls refresh() once counts one.
CountCall ==
  callsInFlight' = IF refreshing THEN Min(callsInFlight + 1, MaxCalls) ELSE 0

\* ------------------------------------------------------------ actions
\* Each handler's result is computed once and the variables take it over.
\* document DOMContentLoaded (charts and wiring have no state of their own).
DOMContentLoaded(throws) ==
  /\ ~booted
  /\ \E s \in {refresh(startSSE(loadThresholds([Enter EXCEPT !.booted = TRUE]),
                               throws))} :
       Become(s) /\ Did("load", s)
  /\ CountCall
  /\ UNCHANGED << inputs, sinceEffective, effGap, lastOutcome, prev >>

\* es "hello" listener.
Hello ==
  /\ booted /\ es # "null"
  /\ inputs < MaxInputs /\ inputs' = inputs + 1
  /\ \E s \in {onHello(Enter)} : Become(s) /\ Did("hello", s)
  /\ CountCall
  /\ UNCHANGED << sinceEffective, effGap, lastOutcome, prev >>

\* es "update" listener.  sinceEffective runs from the last notification the
\* listener acted on, effGap is the time between the last two of them.
Update(msg) ==
  /\ booted /\ es # "null"
  /\ inputs < MaxInputs /\ inputs' = inputs + 1
  /\ \E s \in {onUpdate(Enter, msg)} :
       Become(s) /\ Did(IF TooSoon(Enter) THEN "dropped" ELSE "update", s)
  /\ IF TooSoon(Enter)
     THEN UNCHANGED << sinceEffective, effGap, prev >>
     ELSE sinceEffective' = 0 /\ effGap' = sinceEffective /\ Disturbed
  /\ UNCHANGED << callsInFlight, lastOutcome >>

\* es.onerror.
SSEError ==
  /\ booted /\ es # "null"
  /\ inputs < MaxInputs /\ inputs' = inputs + 1
  /\ \E s \in {onError(Enter)} : Become(s) /\ Did("error", s)
  /\ UNCHANGED << sinceEffective, effGap, callsInFlight, lastOutcome, prev >>

\* The callback of the timeout scheduleRefresh armed, when it is due.
RefreshTimerFire(id) ==
  /\ id \in DOMAIN timeouts /\ timeouts[id] = 0
  /\ \E s \in {refresh([Enter EXCEPT !.timeouts = Disarm(@, id),
                                     !.refreshTimer = NULL])} :
       Become(s) /\ Did("timer", s)
  /\ CountCall
  /\ UNCHANGED << inputs, sinceEffective, effGap, lastOutcome, prev >>

\* The callback of the poll interval, each time it is due.
PollTick(id) ==
  /\ id \in DOMAIN intervals /\ intervals[id] = 0
  /\ \E s \in {refresh([Enter EXCEPT !.intervals = Arm(@, id, POLL_MS)])} :
       Become(s) /\ Did("poll", s)
  /\ CountCall
  /\ UNCHANGED << inputs, sinceEffective, effGap, lastOutcome, prev >>

\* refresh() resumed when its request has settled: the try block with the
\* snapshot, or the catch block (network error, status not OK, body that is no
\* JSON); then the finally block.
refreshResume(s, outcome, dash) ==
  IF outcome = "ok" THEN refreshFinally(refreshTry(s, dash))
  ELSE refreshFinally(refreshCatch(s, outcome))

\* The dashboard request settles.
FetchSettle(outcome, dash) ==
  /\ inflight > 0
  /\ \E s \in {refreshResume([Enter EXCEPT !.inflight = @ - 1], outcome, dash)} :
       Become(s) /\ Did("settle", s)
  /\ lastOutcome' = outcome
  /\ IF outcome = "ok" THEN Delivered(dash) ELSE UNCHANGED prev
  /\ UNCHANGED << inputs, sinceEffective, effGap, callsInFlight >>

\* rangeSel.onchange.
ChangeRange ==
  /\ booted
  /\ inputs < MaxInputs /\ inputs' = inputs + 1
  /\ \E s \in {refresh(Enter)} : Become(s) /\ Did("range", s)
  /\ CountCall
  /\ UNCHANGED << sinceEffective, effGap, lastOutcome, prev >>

\* onlyAlerts.onchange: the checkbox has been flipped.  (It changes the bin
\* table alone; Next leaves it to the runs that are about the tables.)
ToggleOnlyAlerts ==
  /\ booted
  /\ inputs < MaxInputs /\ inputs' = inputs + 1
  /\ \E s \in {refresh([Enter EXCEPT !.onlyAlerts = ~@])} :
       Become(s) /\ Did("only", s)
  /\ CountCall
  /\ Disturbed
  /\ UNCHANGED << sinceEffective, effGap, lastOutcome >>

\* btnSaveAdmin.onclick with a key typed in.
SaveAdminKey(v) ==
  /\ booted
  /\ inputs < MaxInputs /\ inputs' = inputs + 1
  /\ \E s \in {refresh(alert([Enter EXCEPT !.adminKey = v]))} :
       Become(s) /\ Did("key", s)
  /\ CountCall
  /\ Disturbed
  /\ UNCHANGED << sinceEffective, effGap, lastOutcome >>

\* btnEditThresholds.onclick.
EditThresholds(wn, cn) ==
  /\ booted
  /\ inputs < MaxInputs /\ inputs' = inputs + 1
  /\ \E s \in {editThresholds(Enter, wn, cn)} :
       /\ Become(s) /\ Did("thresholds", s)
       /\ IF s.alerted THEN UNCHANGED << prev, callsInFlight >>
          ELSE Disturbed /\ CountCall
  /\ UNCHANGED << sinceEffective, effGap, lastOutcome >>

\* The "Capacita" button of a bin row, a number typed into the prompt.
SetCapacityKg(kg) ==
  /\ booted
  /\ inputs < MaxInputs /\ inputs' = inputs + 1
  /\ \E s \in {setCapacityKg(Enter, kg)} : Become(s) /\ Did("capacity", s)
  /\ UNCHANGED << sinceEffective, effGap, callsInFlight, lastOutcome, prev >>

\* The "Svuota" button of a bin row.
EmptyBin(ok) ==
  /\ booted
  /\ inputs < MaxInputs /\ inputs' = inputs + 1
  /\ \E s \in {emptyBin(Enter, ok)} : Become(s) /\ Did("empty", s)
  /\ UNCHANGED << sinceEffective, effGap, callsInFlight, lastOutcome, prev >>

\* btnSimEvent.onclick.
SimEvent(key, w) ==
  /\ booted
  /\ inputs < MaxInputs /\ inputs' = inputs + 1
  /\ \E s \in {simEvent(Enter, key, w)} : Become(s) /\ Did("sim", s)
  /\ UNCHANGED << sinceEffective, effGap, callsInFlight, lastOutcome, prev >>

\* The request of an administrative action settles: with an ok response,
\* with an error status (fetchJSON throws) or not at all (fetch rejects).
AdminSettle(outcome) ==
  /\ adminReqs > 0
  /\ \E s \in {adminResume([Enter EXCEPT !.adminReqs = @ - 1], outcome = "ok")} :
       Become(s) /\ Did(IF outcome = "ok" THEN "admin"
                        ELSE IF outcome = "status" THEN "adminstatus"
                        ELSE "adminnetwork", s)
  /\ IF outcome = "ok" THEN CountCall ELSE UNCHANGED callsInFlight
  /\ UNCHANGED << inputs, sinceEffective, effGap, lastOutcome, prev >>

\* ------------------------------------------------------------ time
Armed == {timeouts[i] : i \in DOMAIN timeouts} \cup {intervals[i] : i \in DOMAIN intervals}

Elapse(d) ==
  /\ timeouts' = [i \in DOMAIN timeouts |-> timeouts[i] - d]
  /\ intervals' = [i \in DOMAIN intervals |-> intervals[i] - d]
  /\ lastUpdateAge' = Min(lastUpdateAge + d, DEDUP_MS)
  /\ sinceEffective' = IF sinceEffective < 0 THEN sinceEffective
                       ELSE Min(sinceEffective + d, DEDUP_MS)
  /\ last' = Idle("time")
  /\ UNCHANGED << booted, refreshing, pendingRefresh, refreshTimer, es,
                  pollTimer, lastIsAdmin, lastBinsSig, lastEventsSig,
                  thresholds, adminKey, savedThresholds, onlyAlerts, liveText,
                  connDot, errBox, binsBody, eventsBody, eventsEmpty, inflight,
                  adminReqs, effGap, callsInFlight, lastOutcome, prev >>

\* A little time passes, no timer being due before it has.
Tick(d) ==
  /\ booted /\ inputs < MaxInputs
  /\ \A r \in Armed : r >= d
  /\ inputs' = inputs + 1
  /\ Elapse(d)

\* Time passes until the next timer is due.
AdvanceToDeadline ==
  /\ Armed # {}
  /\ \E d \in Armed : d > 0 /\ (\A r \in Armed : r >= d) /\ Elapse(d)
  /\ UNCHANGED inputs

Next ==
  \/ \E throws \in BOOLEAN : DOMContentLoaded(throws)
  \/ Hello
  \/ \E msg \in Messages : Update(msg)
  \/ SSEError
  \/ \E id \in TimerIds : RefreshTimerFire(id)
  \/ \E id \in TimerIds : PollTick(id)
  \/ \E dash \in Dashboards : FetchSettle("ok", dash)
  \/ \E outcome \in Failures : FetchSettle(outcome, NoDashboard)
  \/ ChangeRange
  \/ ToggleOnlyAlerts
  \/ \E v \in AdminKeys : SaveAdminKey(v)
  \/ \E d \in FineSteps : Tick(d)
  \/ AdvanceToDeadline

Spec == Init /\ [][Next]_vars

\* The same program under fairness, for what is claimed to happen eventually:
\* the browser runs a due timer callback, every request settles, time does
\* not stop.  What the snapshots and the notifications hold plays no part in
\* that, so one of each kind is kept; the checkbox and the key button call
\* refresh() exactly as the range selector does, which stands for the three.
LiveMessages == {[raw |-> "garbage", json |-> NoPayload]}

LiveDashboards ==
  {[bins |-> << >>, recent_events |-> << >>, is_admin |-> TRUE]}

LiveNext ==
  \/ \E throws \in BOOLEAN : DOMContentLoaded(throws)
  \/ Hello
  \/ \E msg \in LiveMessages : Update(msg)
  \/ SSEError
  \/ \E id \in TimerIds : RefreshTimerFire(id)
  \/ \E id \in TimerIds : PollTick(id)
  \/ \E dash \in LiveDashboards : FetchSettle("ok", dash)
  \/ FetchSettle("network", NoDashboard)
  \/ ChangeRange
  \/ \E d \in FineSteps : Tick(d)
  \/ AdvanceToDeadline

Settles ==
  \/ \E dash \in LiveDashboards : FetchSettle("ok", dash)
  \/ FetchSettle("network", NoDashboard)

FairSpec ==
  /\ Init /\ [][LiveNext]_vars
  /\ WF_vars(\E id \in TimerIds : RefreshTimerFire(id))
  /\ WF_vars(\E id \in TimerIds : PollTick(id))
  /\ WF_vars(Settles)
  /\ WF_vars(AdvanceToDeadline)

\* ------------------------------------------------------------ notifications
\* The push channel at work: every kind of notification (no data, no type, a
\* type without a rule, the three administrative types, events with an
\* identifier already shown, with a new one and with none), snapshots with no
\* event, with one and with a full page of them, with and without an admin
\* key.  Time runs from one due timer to the next.
\* A full page of events, as many as the request asks for.
FullEvents ==
  [i \in 1..EVENTS_LIMIT |->
     Event("f" \o ToString(i), "b1", "paper", 100, 30, 1)]

NotifyMessages ==
  { [raw |-> "garbage", json |-> NoPayload],
    [raw |-> "json", json |-> Payload("", "b2", 0, "", "", 0, 0)],
    [raw |-> "json", json |-> Payload("heartbeat", "", 0, "", "", 0, 0)],
    [raw |-> "json", json |-> Payload("config", "b2", 0, "", "", 0, 0)],
    [raw |-> "json", json |-> Payload("empty", "b9", 4, "", "", 0, 0)],
    [raw |-> "json", json |-> Payload("rotate_key", "", 0, "", "", 0, 0)],
    [raw |-> "json", json |-> Payload("event", "b1", 2, "e1", "glass", 500, 150)],
    [raw |-> "json", json |-> Payload("event", "b3", 3, "e2", "metal", 200, 80)],
    [raw |-> "json", json |-> Payload("event", "", 0, "", "", 0, 0)] }

NotifyDashboards ==
  [bins : BinLists, recent_events : EventLists \cup {FullEvents},
   is_admin : BOOLEAN]

NotifyInit == Start({""} \cup AdminKeys, {NoStored}, FALSE)

NotifyNext ==
  \/ \E throws \in BOOLEAN : DOMContentLoaded(throws)
  \/ Hello
  \/ \E msg \in NotifyMessages : Update(msg)
  \/ SSEError
  \/ \E id \in TimerIds : RefreshTimerFire(id)
  \/ \E id \in TimerIds : PollTick(id)
  \/ \E dash \in NotifyDashboards : FetchSettle("ok", dash)
  \/ FetchSettle("status", NoDashboard)
  \/ AdvanceToDeadline

NotifySpec == NotifyInit /\ [][NotifyNext]_vars

\* ------------------------------------------------------------ the tables
\* Refresh after refresh: snapshots that differ in their bins, in their
\* events and in the admin flag, with and without an admin key, and between
\* the refreshes what can change how a snapshot is shown: an event
\* notification, the filter, a key saved, a threshold edit.
ViewBinLists ==
  { << Bin("b1", 1000, 400, 1, 40), Bin("b2", 1000, 900, 1, 90),
       Bin("b3", 1000, 600, 1, 60) >>,
    << Bin("b1", 1000, 400, 1, 40), Bin("b2", 1000, 900, 1, 90),
       Bin("b3", 1000, 750, 2, 75) >> }

ViewDashboards ==
  [bins : ViewBinLists, recent_events : EventLists, is_admin : BOOLEAN]

ViewMessages ==
  { [raw |-> "json", json |-> Payload("event", "b3", 3, "e2", "metal", 200, 80)] }

ViewInit == Start({""} \cup AdminKeys, {NoStored}, TRUE)

ViewNext ==
  \/ DOMContentLoaded(FALSE)
  \/ \E msg \in ViewMessages : Update(msg)
  \/ \E id \in TimerIds : RefreshTimerFire(id)
  \/ \E dash \in ViewDashboards : FetchSettle("ok", dash)
  \/ FetchSettle("status", NoDashboard)
  \/ ChangeRange
  \/ ToggleOnlyAlerts
  \/ \E v \in AdminKeys : SaveAdminKey(v)
  \/ EditThresholds(60, 85)
  \/ AdvanceToDeadline

ViewSpec == ViewInit /\ [][ViewNext]_vars

\* ------------------------------------------------------------ thresholds
\* The thresholds at work: edits that keep the rule and edits that break it,
\* thresholds left in localStorage (none, a pair that breaks the rule, a pair
\* that keeps it), the filter on and off, bin lists in no particular order.
\* What the operator types into the two threshold prompts.
ThresholdEntries == { <<0, 50>>, <<80, 80>>, <<50, 101>>, <<70, 85>>, <<60, 85>> }

\* Bin lists out of order, with none, with fill ratios on the thresholds.
ThresholdBinLists ==
  ViewBinLists \cup
  { << >>,
    << Bin("b1", 1000, 100, 1, 10), Bin("b2", 1000, 700, 1, 70),
       Bin("b3", 1000, 850, 1, 85), Bin("b4", 1000, 1000, 1, 100) >> }

ThresholdDashboards ==
  [bins : ThresholdBinLists, recent_events : { << >> }, is_admin : {TRUE}]

ThresholdInit == Start(AdminKeys, StoredThresholds, TRUE)

ThresholdNext ==
  \/ DOMContentLoaded(FALSE)
  \/ \E id \in TimerIds : RefreshTimerFire(id)
  \/ \E dash \in ThresholdDashboards : FetchSettle("ok", dash)
  \/ ToggleOnlyAlerts
  \/ \E e \in ThresholdEntries : EditThresholds(e[1], e[2])
  \/ AdvanceToDeadline

ThresholdSpec == ThresholdInit /\ [][ThresholdNext]_vars

\* ------------------------------------------------------------ administration
\* The administrative actions on either transport, with and without the keys
\* they need, their requests succeeding and failing.
AdminDashboards ==
  [bins : BinLists, recent_events : { << >> }, is_admin : {TRUE}]

AdminInit == Start({""} \cup AdminKeys, {NoStored}, FALSE)

AdminNext ==
  \/ \E throws \in BOOLEAN : DOMContentLoaded(throws)
  \/ Hello
  \/ SSEError
  \/ \E id \in TimerIds : RefreshTimerFire(id)
  \/ \E id \in TimerIds : PollTick(id)
  \/ \E dash \in AdminDashboards : FetchSettle("ok", dash)
  \/ FetchSettle("network", NoDashboard)
  \/ \E e \in {<<80, 80>>, <<60, 85>>} : EditThresholds(e[1], e[2])
  \/ \E kg \in {0, 5, MAX_KG + 1} : SetCapacityKg(kg)
  \/ \E ok \in BOOLEAN : EmptyBin(ok)
  \/ \E key \in {"", "i1"}, w \in {0, 500} : SimEvent(key, w)
  \/ \E outcome \in {"ok", "status", "network"} : AdminSettle(outcome)
  \/ AdvanceToDeadline

AdminSpec == AdminInit /\ [][AdminNext]_vars

\* ============================================================ claims
Callers == {"load", "hello", "timer", "poll", "range", "only", "key"}

\* What a call of refresh() does to the coordinator, seen from outside.
RefreshCalled ==
  /\ refreshing'
  /\ IF refreshing
     THEN pendingRefresh' /\ ~last'.started /\ inflight' = inflight
     ELSE last'.started /\ inflight' = inflight + 1 /\ pendingRefresh' = pendingRefresh

\* The debounce timer armed alone, with ms left.
ArmedAlone(tbl, handle, ms) ==
  handle # NULL /\ DOMAIN tbl = {handle} /\ tbl[handle] = ms

\* The follow-up of the pending flag, as the finally block arranges it.
FollowUp ==
  IF pendingRefresh
  THEN ArmedAlone(timeouts', refreshTimer', RETRY_MS)
  ELSE timeouts' = timeouts /\ refreshTimer' = refreshTimer

\* C1: in every reachable state at most one dashboard fetch is in flight, and
\* one is in flight exactly while the refreshing flag is up; a call of
\* refresh() during it starts no second one.
C1_AtMostOneFetch ==
  /\ inflight <= 1
  /\ refreshing <=> inflight = 1
  /\ pendingRefresh => refreshing

C1_Witness == inflight = 1 /\ pendingRefresh /\ callsInFlight >= 2 /\ last.act = "timer"

\* C2: the pending flag is one slot.  It is up exactly when at least one
\* refresh() call was made during the fetch in flight; when the fetch settles,
\* with either outcome, the flag is cleared, no fetch is started by that step
\* and, if the flag was up, one debounce timer is armed 350 ms ahead (else the
\* timers are left as they were); the timer's callback leaves no timer armed
\* and calls refresh() once.
C2_SinglePendingSlot ==
  /\ [](refreshing => (pendingRefresh <=> callsInFlight >= 1))
  /\ [][last'.act = "settle" =>
          /\ ~refreshing' /\ ~pendingRefresh'
          /\ inflight' = 0 /\ ~last'.started
          /\ FollowUp]_vars
  /\ [][last'.act = "timer" =>
          /\ timeouts' = NoTimers /\ refreshTimer' = NULL
          /\ RefreshCalled]_vars

C2_Witness ==
  /\ last.act = "settle" /\ callsInFlight >= 2
  /\ ArmedAlone(timeouts, refreshTimer, RETRY_MS)
  /\ inflight = 0

\* C3: at most one debounce timer is armed, and refreshTimer is its handle;
\* a scheduleRefresh(d) call leaves exactly one timer armed, due d ms after the
\* call, whatever was left on the one it cancelled; the callback of the timer
\* leaves none armed and calls refresh() once.
C3_DebounceCoalesces ==
  /\ [](/\ Cardinality(DOMAIN timeouts) <= 1
        /\ refreshTimer = NULL <=> timeouts = NoTimers
        /\ refreshTimer # NULL => DOMAIN timeouts = {refreshTimer})
  /\ [][last'.asked >= 0 =>
          /\ ArmedAlone(timeouts', refreshTimer', last'.asked)
          /\ last'.cancelled = IF refreshTimer # NULL THEN timeouts[refreshTimer] ELSE -1]_vars
  /\ [][last'.act = "timer" =>
          /\ timeouts' = NoTimers /\ refreshTimer' = NULL
          /\ refreshing']_vars

C3_Witness ==
  /\ last.act = "update" /\ last.asked = DELAY_DEFAULT_MS
  /\ last.cancelled > 0 /\ last.cancelled < RETRY_MS
  /\ ArmedAlone(timeouts, refreshTimer, DELAY_DEFAULT_MS)


\* C4: no refresh request is lost.  Whenever the pending flag is up (refresh()
\* was called during the fetch in flight), a new fetch begins later: the
\* requests settle, due timers run and time goes on (FairSpec).
C4_NoRequestLost == pendingRefresh ~> last.started

C4_Witness ==
  /\ pendingRefresh /\ inflight = 1 /\ last.act = "poll" /\ callsInFlight = 1

\* C5: a failed fetch (network error, status not OK, body that is no JSON)
\* shows the error and Offline and lowers the refreshing flag; it leaves the
\* subscription, the poll timer and the tables alone, and the debounce timer
\* too unless the pending flag was up, whose follow-up is armed as after a
\* success; the next refresh() call starts a fetch and clears the banner.
C5_FailedFetch ==
  /\ [][(last'.act = "settle" /\ lastOutcome' \in Failures) =>
          /\ errBox' = lastOutcome' /\ liveText' = "Offline" /\ connDot' = "bad"
          /\ ~refreshing' /\ ~pendingRefresh' /\ inflight' = 0
          /\ UNCHANGED << es, pollTimer, intervals, lastUpdateAge, lastIsAdmin,
                          lastBinsSig, lastEventsSig, binsBody, eventsBody,
                          eventsEmpty, thresholds, adminKey, savedThresholds,
                          onlyAlerts >>
          /\ FollowUp]_vars
  /\ [][(last'.act = "settle" /\ lastOutcome' = "ok") =>
          (~refreshing' /\ ~pendingRefresh' /\ inflight' = 0 /\ FollowUp)]_vars
  /\ [][(last'.act \in Callers /\ ~refreshing) =>
          (last'.started /\ refreshing' /\ errBox' = "")]_vars

C5_Witness ==
  /\ last.act = "settle" /\ lastOutcome = "nonjson" /\ errBox = "nonjson"
  /\ liveText = "Offline" /\ pollTimer # NULL /\ callsInFlight >= 1
  /\ ArmedAlone(timeouts, refreshTimer, RETRY_MS)

\* C6: in every reachable state the status shown is Offline only if the
\* refresh attempt that completed last failed.
C6_OfflineOnlyAfterFailure == liveText = "Offline" => lastOutcome \in Failures

\* C7: on an error of the push channel the subscription is closed, the status
\* becomes Polling and one poll interval of 10 s is armed; there is never a
\* second one; once armed it stays armed, and each time it is due, 10 s after
\* it was armed, it is armed for another 10 s and refresh() is called.
C7_PollingFallback ==
  /\ [](/\ Cardinality(DOMAIN intervals) <= 1
        /\ pollTimer = NULL <=> intervals = NoTimers
        /\ pollTimer # NULL => (DOMAIN intervals = {pollTimer} /\ es = "null"))
  /\ [][last'.act = "error" =>
          /\ es' = "null" /\ liveText' = "Polling" /\ connDot' = "warn"
          /\ ArmedAlone(intervals', pollTimer', POLL_MS)]_vars
  /\ [][pollTimer # NULL => pollTimer' = pollTimer]_vars
  /\ [][last'.act = "poll" =>
          /\ intervals[pollTimer] = 0
          /\ ArmedAlone(intervals', pollTimer', POLL_MS)
          /\ RefreshCalled]_vars

C7_Witness ==
  /\ last.act = "poll" /\ last.started /\ liveText = "Polling"
  /\ lastOutcome = "ok" /\ ArmedAlone(intervals, pollTimer, POLL_MS)

\* C8: the transport has no terminal state: once a failure has put it in
\* Polling, a reconnect attempt opens a subscription again.
C8_ReconnectAfterPolling == (pollTimer # NULL) ~> (es # "null")

\* C9: on the hello signal the status becomes Realtime and refresh() is
\* called: a fetch begins at once if none is in flight, else the pending flag
\* goes up; the page load calls refresh() right after start, so a hello that
\* arrives before that first fetch has settled takes the second branch.
C9_HelloRefreshes ==
  /\ [][last'.act = "hello" =>
          /\ liveText' = "Realtime" /\ connDot' = ""
          /\ RefreshCalled]_vars
  /\ [][last'.act = "load" => (last'.started /\ refreshing' /\ inflight' = 1)]_vars

C9_Witness ==
  /\ last.act = "hello" /\ liveText = "Realtime" /\ pendingRefresh
  /\ lastOutcome = "none" /\ inflight = 1

\* C10: an update notification that arrives less than 120 ms after the last
\* one the listener acted on changes nothing in the program (no row, no
\* event, no timer, no timestamp); one that arrives later is acted on; so two
\* notifications acted on are at least 120 ms apart.
C10_AntiStorm ==
  /\ [](effGap = -1 \/ effGap >= DEDUP_MS)
  /\ [][last'.act = "dropped" =>
          (sinceEffective >= 0 /\ sinceEffective < DEDUP_MS /\ UNCHANGED progVars)]_vars
  /\ [][last'.act = "update" =>
          /\ sinceEffective = -1 \/ sinceEffective >= DEDUP_MS
          /\ lastUpdateAge' = 0 /\ last'.asked >= 0]_vars

C10_Witness ==
  /\ last.act = "dropped" /\ sinceEffective = DEDUP_MS - 1
  /\ refreshTimer # NULL /\ timeouts[refreshTimer] < DELAY_DEFAULT_MS

\* The type a notification declares (none when it carries no JSON object).
DeclaredType(msg) == IF msg.raw = "json" THEN msg.json.type ELSE ""

TypeDelay(type) ==
  IF type \in {"config", "empty", "rotate_key"} THEN 350
  ELSE IF type = "event" THEN 650 ELSE 800

\* C11: every update notification the listener acts on leaves exactly one
\* debounce timer armed and starts no fetch itself; the delay follows from the
\* declared type alone: 350 ms for config, empty and rotate_key, 650 ms for
\* event, 800 ms for any other type and for none.  Data that does not parse
\* patches no row, prepends no event and gets the 800 ms.
C11_DelayByType ==
  [][\A msg \in NotifyMessages :
       (last'.act = "update" /\ Update(msg)) =>
         /\ ArmedAlone(timeouts', refreshTimer', TypeDelay(DeclaredType(msg)))
         /\ last'.asked = TypeDelay(DeclaredType(msg))
         /\ inflight' = inflight /\ ~last'.started
         /\ msg.raw = "garbage" =>
              /\ last'.asked = 800
              /\ UNCHANGED << binsBody, eventsBody, eventsEmpty, lastEventsSig,
                              lastBinsSig >>]_vars

C11_Witness ==
  /\ last.act = "update" /\ last.asked = 650 /\ last.cancelled = 350
  /\ ArmedAlone(timeouts, refreshTimer, 650)
  /\ eventsBody # << >> /\ eventsBody[1].eid = "e2"

Shown(eid) == \E i \in 1..Len(eventsBody) : eventsBody[i].eid = eid

\* C12: in every reachable state no two rows of the event table carry the
\* same non-empty event identifier (the server's list having none twice), and
\* an event notification whose identifier is already shown leaves the rows as
\* they are.
C12_NoDuplicateEvent ==
  /\ [](\A i, j \in 1..Len(eventsBody) :
          (i # j /\ eventsBody[i].eid # "") => eventsBody[i].eid # eventsBody[j].eid)
  /\ [][\A msg \in NotifyMessages :
          (/\ last'.act = "update" /\ Update(msg)
           /\ msg.json.type = "event" /\ msg.json.event_id # ""
           /\ Shown(msg.json.event_id)) =>
            UNCHANGED << eventsBody, lastEventsSig >>]_vars

C12_Witness ==
  /\ last.act = "update" /\ last.asked = 650
  /\ adminKey # "" /\ lastIsAdmin
  /\ Len(eventsBody) = 1 /\ eventsBody[1].eid = "e1"
  /\ lastEventsSig = EventsSig(<< Event("e1", "b1", "glass", 500, 150, 2) >>)

\* The rule of the thresholds.
Rule(w, c) == 0 < w /\ w < c /\ c <= 100

\* C13: the thresholds keep 0 < warn < critical <= 100 in every reachable
\* state.  An edit is accepted exactly when the pair typed keeps the rule (of
\* the pairs typed here (70,85) and (60,85) do; (0,50), (80,80) and (50,101)
\* do not): an accepted pair becomes the thresholds, is stored and refresh()
\* is called; a rejected one raises an alert and changes nothing in the
\* program, stored thresholds, flags and requests included.  A stored pair
\* that breaks the rule is ignored when the page loads.
C13_ThresholdRule ==
  /\ [](Rule(thresholds.warn, thresholds.critical))
  /\ [][\A e \in ThresholdEntries :
          EditThresholds(e[1], e[2]) =>
            IF Rule(e[1], e[2])
            THEN /\ thresholds' = [warn |-> e[1], critical |-> e[2]]
                 /\ savedThresholds' = Stored(e[1], e[2])
                 /\ ~last'.alerted
                 /\ RefreshCalled
            ELSE last'.alerted /\ UNCHANGED progVars]_vars
  /\ [][last'.act = "load" =>
          /\ savedThresholds' = savedThresholds
          /\ thresholds' =
               IF /\ savedThresholds.raw = "json"
                  /\ Rule(savedThresholds.warn, savedThresholds.critical)
               THEN [warn |-> savedThresholds.warn,
                     critical |-> savedThresholds.critical]
               ELSE thresholds]_vars

C13_Witness ==
  /\ last.act = "thresholds" /\ last.alerted /\ ~refreshing
  /\ thresholds = [warn |-> 70, critical |-> 85]
  /\ savedThresholds = Stored(80, 80)

\* The step is a refresh that succeeds; prev' then holds the snapshot it
\* delivered.
Succeeded == last'.act = "settle" /\ lastOutcome' = "ok"

\* The severity class of a fill ratio under thresholds th.
Class(th, fill) ==
  IF fill >= th.critical THEN "critical"
  ELSE IF fill >= th.warn THEN "warning" ELSE "ok"

Rank(class) == IF class = "critical" THEN 2 ELSE IF class = "warning" THEN 1 ELSE 0

\* The rows show exactly the bins of the list that the mode lets through,
\* each once, critical before warning before ok and, within a class, the
\* fuller bin first.
TableShows(rows, list, th, only) ==
  LET want == {i \in 1..Len(list) : only => list[i].fill_percent >= th.warn}
  IN /\ Len(rows) = Cardinality(want)
     /\ \A i \in want :
          \E k \in 1..Len(rows) :
            rows[k].bin_id = list[i].bin_id /\ rows[k].fill = list[i].fill_percent
     /\ \A k, l \in 1..Len(rows) :
          k < l =>
            \/ Rank(Class(th, rows[k].fill)) > Rank(Class(th, rows[l].fill))
            \/ /\ Class(th, rows[k].fill) = Class(th, rows[l].fill)
               /\ rows[k].fill >= rows[l].fill

\* C14: whatever bin list a successful refresh delivers and whatever the
\* thresholds are, the bin table then shows the bins by severity class
\* (critical, warning, ok, by the thresholds of that moment) and within a
\* class by fill ratio, fullest first; with the only-alerts mode on it shows
\* exactly the bins at or above warn, in that order.
C14_SeverityOrder ==
  [][Succeeded =>
       TableShows(binsBody', prev'.dash.bins, thresholds', onlyAlerts')]_vars

C14_Witness ==
  /\ last.act = "settle" /\ "bins" \in last.rendered
  /\ onlyAlerts /\ thresholds = [warn |-> 60, critical |-> 85]
  /\ Len(binsBody) = 2
  /\ binsBody[1].bin_id = "b2" /\ binsBody[1].fill = 90
  /\ binsBody[2].bin_id = "b3" /\ binsBody[2].fill = 60

\* C15: rendering is idempotent.  When a successful refresh delivers the
\* snapshot the successful refresh before it delivered, and no notification
\* was acted on, no threshold edit accepted, the filter not toggled and no key
\* saved between the two, it renders neither table anew and leaves both
\* tables and both signatures as they are.
C15_RenderIdempotent ==
  [][(Succeeded /\ prev.quiet /\ prev'.dash = prev.dash) =>
         /\ last'.rendered = {}
         /\ UNCHANGED << binsBody, eventsBody, eventsEmpty, lastBinsSig,
                         lastEventsSig >>]_vars

C15_Witness ==
  /\ last.act = "settle" /\ lastOutcome = "ok" /\ last.rendered = {}
  /\ prev.quiet /\ inputs >= 1
  /\ Len(binsBody) = Len(prev.dash.bins) /\ binsBody # << >>
  /\ lastBinsSig.tag = "ALL|"
  /\ eventsBody # << >> /\ lastEventsSig = EventsSig(prev.dash.recent_events)

\* The rows of the event table for a list of events.
RowsOf(events) ==
  [i \in 1..Len(events) |->
     [eid |-> events[i].id, bin_id |-> events[i].bin_id,
      material |-> events[i].material, weight |-> events[i].weight_g,
      co2 |-> events[i].co2_saved_g, when |-> events[i].ts]]

\* C16: the two authorization states of the event table (no admin key stored;
\* a key stored but the snapshot says not admin) are rendered once, on
\* entering.  A successful refresh that finds one of them when the successful
\* refresh before it found another state, or when there was none before,
\* clears the table and shows the message of the state; one that finds the
\* state the one before it found renders nothing of the event table; one
\* that finds the admin state after one of the two renders the events of its
\* snapshot.
C16_AuthStateOnce ==
  [][Succeeded =>
       /\ (prev'.auth \in {"NOADMIN", "BADADMIN"} /\ prev.auth # prev'.auth) =>
            /\ "events" \in last'.rendered
            /\ eventsBody' = << >>
            /\ eventsEmpty' = IF prev'.auth = "NOADMIN" THEN "noadmin" ELSE "badadmin"
       /\ (prev'.auth \in {"NOADMIN", "BADADMIN"} /\ prev.auth = prev'.auth) =>
            /\ "events" \notin last'.rendered
            /\ UNCHANGED << eventsBody, eventsEmpty, lastEventsSig >>
       /\ (prev'.auth = "ADMIN" /\ prev.auth \in {"NOADMIN", "BADADMIN"}) =>
            /\ "events" \in last'.rendered
            /\ eventsBody' = RowsOf(prev'.dash.recent_events)]_vars

C16_Witness ==
  /\ last.act = "settle" /\ lastOutcome = "ok"
  /\ prev.auth = "BADADMIN" /\ "events" \notin last.rendered
  /\ eventsEmpty = "badadmin" /\ eventsBody = << >>
  /\ lastEventsSig = Sig("BADADMIN", << >>)

\* The step is a successful refresh that follows an earlier successful one
\* and finds the same authorization.
SameAuthAgain ==
  /\ Succeeded /\ prev.auth # "none"
  /\ prev'.dash.is_admin = prev.dash.is_admin

OnlyEventsDiffer ==
  /\ prev'.dash.bins = prev.dash.bins
  /\ prev'.dash.recent_events # prev.dash.recent_events

OnlyBinsDiffer ==
  /\ prev'.dash.recent_events = prev.dash.recent_events
  /\ prev'.dash.bins # prev.dash.bins

NoRefresh ==
  /\ ~last'.started
  /\ UNCHANGED << refreshing, pendingRefresh, inflight >>

\* C18 as stated: an administrative action calls refresh() once its own
\* request has completed, whatever the response was.
C18_AsStated ==
  [][last'.act \in {"admin", "adminstatus"} => RefreshCalled]_vars

\* C18: set capacity, empty bin and simulated event submission issue their
\* request when the key and the input allow it (and otherwise only alert or
\* return), and call refresh() when that request has completed with an ok
\* response; an accepted threshold edit calls refresh() at once.  This is so
\* in every transport state and with no notification arriving.  When the
\* request fails, with an error status or with no response, the action
\* alerts and does not call refresh().
C18_RefreshAfterOwnRequest ==
  [][/\ last'.act = "admin" => RefreshCalled /\ adminReqs' = adminReqs - 1
     /\ (last'.act = "thresholds" /\ ~last'.alerted) => RefreshCalled
     /\ last'.act \in {"adminstatus", "adminnetwork"} =>
          last'.alerted /\ NoRefresh /\ adminReqs' = adminReqs - 1
     /\ last'.act \in {"capacity", "empty", "sim"} =>
          /\ NoRefresh
          /\ \/ adminReqs' = adminReqs + 1 /\ ~last'.alerted
             \/ adminReqs' = adminReqs]_vars

C18_Witness ==
  /\ last.act = "admin" /\ last.started /\ refreshing /\ inflight = 1
  /\ es = "null" /\ pollTimer # NULL /\ liveText = "Polling"

\* C19 as stated: the hello and update handlers, the error handler and the
\* arming of the debounce timer leave the tables and their signatures
\* unchanged, and, but for the refresh() the hello handler calls, the two
\* flags as well.
C19_AsStated ==
  [][/\ last'.act \in {"update", "dropped", "error"} =>
          UNCHANGED << refreshing, pendingRefresh, binsBody, eventsBody,
                       eventsEmpty, lastBinsSig, lastEventsSig >>
     /\ last'.act = "hello" =>
          UNCHANGED << binsBody, eventsBody, eventsEmpty, lastBinsSig,
                       lastEventsSig >>]_vars

\* Only "last seen" cells differ between the two bin tables, and only in the
\* rows of one bin.
LastSeenPatched(before, after) ==
  /\ Len(after) = Len(before)
  /\ \A i \in 1..Len(before) : [after[i] EXCEPT !.last = before[i].last] = before[i]
  /\ \A i, j \in 1..Len(before) :
       (after[i] # before[i] /\ after[j] # before[j]) =>
          before[i].bin_id = before[j].bin_id

\* One row was put before the rows of the event table, or nothing changed.
Prepended(before, after) ==
  \/ after = before
  \/ /\ after # << >>
     /\ Tail(after) = SubSeq(before, 1, Len(after) - 1)
     /\ Len(after) = Min(Len(before) + 1, EVENTS_LIMIT)

\* C19: the two flags and the stored bin signature change only in a
\* refresh() call or when its fetch settles, and the bin table is rendered
\* only there.  The error handler and a notification dropped as a burst
\* leave the flags, both tables and both signatures unchanged; the hello
\* handler changes only the flags, by calling refresh().  The update handler
\* leaves the flags and the bin signature unchanged but writes to what is
\* shown outside any refresh() cycle: it patches the last-seen cell of the
\* rows of one bin and, only with a key stored and the last snapshot saying
\* admin, may put one row before the event rows, which stores LIVE as the
\* event signature.
C19_CoordinatorWrites ==
  [][/\ (refreshing' # refreshing \/ pendingRefresh' # pendingRefresh) =>
          last'.act \in Callers \cup {"settle"}
     /\ lastBinsSig' # lastBinsSig =>
          last'.act = "settle" /\ "bins" \in last'.rendered
     /\ last'.act \in {"dropped", "error"} =>
          UNCHANGED << refreshing, pendingRefresh, binsBody, eventsBody,
                       eventsEmpty, lastBinsSig, lastEventsSig >>
     /\ last'.act = "hello" =>
          /\ RefreshCalled
          /\ UNCHANGED << binsBody, eventsBody, eventsEmpty, lastBinsSig,
                          lastEventsSig >>
     /\ last'.act = "update" =>
          /\ UNCHANGED << refreshing, pendingRefresh, inflight, lastBinsSig >>
          /\ ~last'.started /\ last'.rendered = {}
          /\ LastSeenPatched(binsBody, binsBody')
          /\ Prepended(eventsBody, eventsBody')
          /\ IF eventsBody' # eventsBody
             THEN /\ adminKey # "" /\ lastIsAdmin
                  /\ lastEventsSig' = Sig("LIVE", << >>) /\ eventsEmpty' = ""
             ELSE UNCHANGED << lastEventsSig, eventsEmpty >>]_vars

C19_Witness ==
  /\ last.act = "update" /\ ~refreshing /\ ~pendingRefresh
  /\ lastEventsSig = Sig("LIVE", << >>)
  /\ Len(eventsBody) = 1 /\ eventsBody[1].eid = "e1"
  /\ Len(binsBody) = 2
  /\ \E i \in 1..2 : binsBody[i].bin_id = "b1" /\ binsBody[i].last = 2
  /\ \E i \in 1..2 : binsBody[i].bin_id = "b2" /\ binsBody[i].last = 1
  /\ lastBinsSig.tag = "ALL|"

\* C20: the event table never holds more than 20 rows, whatever prepends and
\* refreshes happen, the server answering events_limit=20 with at most 20
\* events; a prepend onto a full table puts the new row first, keeps the 19
\* rows that were on top and drops the row at the bottom.
C20_AtMostTwentyRows ==
  /\ [](Len(eventsBody) <= EVENTS_LIMIT)
  /\ [][(last'.act = "update" /\ Len(eventsBody) = EVENTS_LIMIT
          /\ eventsBody' # eventsBody) =>
            /\ Len(eventsBody') = EVENTS_LIMIT
            /\ eventsBody'[1].eid = "" \/ ~Shown(eventsBody'[1].eid)
            /\ Tail(eventsBody') = SubSeq(eventsBody, 1, EVENTS_LIMIT - 1)]_vars

C20_Witness ==
  /\ last.act = "update" /\ lastEventsSig = Sig("LIVE", << >>)
  /\ Len(eventsBody) = EVENTS_LIMIT
  /\ eventsBody[1].eid = "e2" /\ eventsBody[2].eid = "e1"
  /\ eventsBody[3].eid = "f1" /\ eventsBody[EVENTS_LIMIT].eid = "f18"

\* What the event table shows for a snapshot under an authorization state.
EventsFor(auth, dash) ==
  IF auth = "ADMIN" THEN RowsOf(dash.recent_events) ELSE << >>

\* C21: an optimistically prepended row is reconciled by the next successful
\* refresh.  A prepend that changes the event table stores LIVE as the event
\* signature; LIVE stays stored until a refresh succeeds; the successful
\* refresh that finds LIVE renders the event table, from its snapshot for an
\* admin and empty otherwise, also when the events of the snapshot are those
\* rendered before the prepend.  So after every successful refresh the event
\* table holds the rows of the snapshot and no other.
C21_PrependReconciled ==
  [][/\ (last'.act = "update" /\ eventsBody' # eventsBody) =>
          lastEventsSig' = Sig("LIVE", << >>)
     /\ (lastEventsSig = Sig("LIVE", << >>) /\ ~Succeeded) =>
          UNCHANGED << lastEventsSig, eventsBody >>
          \/ (last'.act = "update" /\ lastEventsSig' = lastEventsSig)
     /\ (Succeeded /\ lastEventsSig = Sig("LIVE", << >>)) =>
          /\ "events" \in last'.rendered
          /\ lastEventsSig' # Sig("LIVE", << >>)
     /\ Succeeded => eventsBody' = EventsFor(prev'.auth, prev'.dash)]_vars

C21_Witness ==
  /\ last.act = "settle" /\ lastOutcome = "ok" /\ last.rendered = {"events"}
  /\ sinceEffective >= 0 /\ prev.auth = "ADMIN"
  /\ Len(eventsBody) = 1 /\ eventsBody[1].eid = "e1"
  /\ lastEventsSig = EventsSig(prev.dash.recent_events)

\* C22: after every successful refresh each row of the bin table shows the
\* severity class of its fill ratio under the thresholds then in force.
C22_RowsShowSeverity ==
  [][Succeeded =>
       \A k \in 1..Len(binsBody') :
          binsBody'[k].pri = Rank(Class(thresholds', binsBody'[k].fill))]_vars

\* C23: after every successful refresh the last-seen cell of each row of the
\* bin table shows the last_seen that bin has in the snapshot just fetched.
C23_LastSeenFromSnapshot ==
  [][Succeeded =>
       \A k \in 1..Len(binsBody') :
          \E i \in 1..Len(prev'.dash.bins) :
             /\ prev'.dash.bins[i].bin_id = binsBody'[k].bin_id
             /\ prev'.dash.bins[i].last_seen = binsBody'[k].last]_vars

\* No admin visibility: no key is stored, or the last successful fetch said
\* not admin (as before the first fetch).
NoAdminVisibility == adminKey = "" \/ ~lastIsAdmin

\* C24: event rows are shown only under confirmed admin visibility.  In
\* every reachable state with no key stored or with the last successful
\* fetch saying not admin, the event table is empty; an event notification
\* acted on in such a state adds no row and leaves the event table, its
\* message and its stored signature unchanged.
C24_EventsOnlyForAdmin ==
  /\ [](NoAdminVisibility => eventsBody = << >>)
  /\ [][(last'.act = "update" /\ NoAdminVisibility) =>
          UNCHANGED << eventsBody, eventsEmpty, lastEventsSig >>]_vars

C24_Witness ==
  /\ last.act = "update" /\ lastOutcome = "ok"
  /\ adminKey # "" /\ ~lastIsAdmin
  /\ eventsBody = << >> /\ eventsEmpty = "badadmin"
  /\ lastEventsSig = Sig("BADADMIN", << >>)

=============================================================================
